---- MODULE Spec2Model ----
(***************************************************************************)
(* A model of maracas/dataset.py: the Dataset registry (speech list, noise *)
(* and reverb dictionaries) and the generation driver (generate_condition, *)
(* generate_dataset, FileGenerator) over an abstract file system.          *)
(*                                                                         *)
(* Strings (paths, names) are sequences of tokens; the separators "/",     *)
(* ".", "_" are tokens of their own, so that basename, splitext and        *)
(* str.format are computed on the text and not assumed.                    *)
(***************************************************************************)
EXTENDS Integers, Sequences, FiniteSets, TLC

VARIABLES
  speech,    \* Dataset.speech: list of paths
  noise,     \* Dataset.noise: dict name -> path
  reverb,    \* Dataset.reverb: dict name -> path
  lastOp,    \* the last registry call and its outcome
  dirs,      \* output file system: the directories that exist
  outFiles,  \* output file system: the files that exist
  pc,        \* where the caller's thread is: idle, cond, select, map
  call,      \* the generation call in progress (or the last one made)
  pending,   \* the pool's task queue
  worker,    \* per pool worker: << >> when idle, <<task>> when running
  failed,    \* a task of the batch being mapped has raised
  batch,     \* the speech files selected for the current SNR
  invoked,   \* the (reverb, noise) pairs generate_condition was invoked with
  result,    \* outcome of the call: none, running, ok, error
  prev,      \* what the previous call left, when this call repeats its arguments
  ncalls     \* generation calls made

dsvars == <<speech, noise, reverb, lastOp>>
genvars == <<dirs, outFiles, pc, call, pending, worker, failed, batch, invoked,
             result, prev, ncalls>>
vars == <<speech, noise, reverb, lastOp, dirs, outFiles, pc, call, pending,
          worker, failed, batch, invoked, result, prev, ncalls>>

(***************************************************************************)
(* Bounds                                                                  *)
(***************************************************************************)
MaxSpeech == 2
MaxCalls == 2
NWorkers == 2

(***************************************************************************)
(* Text helpers: os.path.basename, os.path.splitext, os.path.join          *)
(***************************************************************************)
Max(S) == CHOOSE x \in S : \A y \in S : y <= x

\* str.rfind, 1-based; 0 when absent
RFind(s, c) == Max({0} \cup {i \in 1..Len(s) : s[i] = c})

\* os.path.basename: what follows the last "/"
Basename(p) == SubSeq(p, RFind(p, "/") + 1, Len(p))

\* a splitext that keeps the extension
SplitextRootKeepsExt(p) == p

\* os.path.splitext(p)[0]: cut at the last "." of the last component, unless
\* only dots precede it in that component
SplitextRoot(p) ==
  LET sep == RFind(p, "/")
      dot == RFind(p, ".")
  IN  IF dot > sep /\ \E i \in (sep + 1)..(dot - 1) : p[i] # "."
      THEN SubSeq(p, 1, dot - 1)
      ELSE p

\* os.path.join(a, b) for a relative b
Join(a, b) == a \o <<"/">> \o b

(***************************************************************************)
(* The input file system: fixed while the program runs                     *)
(***************************************************************************)
InputDirs == { <<"s">>, <<"s", "/", "u">>, <<"n">>, <<"r">> }

\* os.listdir order of each directory
ListDir(d) ==
  CASE d = <<"s">> -> << <<"a", ".", "wav">>, <<"b", ".", "WAV">>,
                         <<"c", ".", "txt">>, <<"u">> >>
    [] d = <<"s", "/", "u">> -> << <<"a", ".", "wav">> >>
    [] d = <<"n">> -> << <<"c", ".", "wav">>, <<"b", "_", "c", ".", "wav">> >>
    [] d = <<"r">> -> << <<"a", ".", "wav">>, <<"a", "_", "b", ".", "wav">> >>
    [] OTHER -> << >>

\* os.path.isdir
IsDir(p) == p \in InputDirs

\* every directory entry that is not itself a directory
InputFiles ==
  UNION { {Join(d, ListDir(d)[i]) : i \in 1..Len(ListDir(d))} : d \in InputDirs }
    \ InputDirs

\* os.path.isfile
IsFile(p) == p \in InputFiles

\* glob(os.path.join(d, '*.' + ext)): the plain files of d with that extension
Glob(d, ext) ==
  LET names == ListDir(d)
      Match(nm) == /\ IsFile(Join(d, nm))
                   /\ Len(nm) > 2
                   /\ nm[1] # "."
                   /\ SubSeq(nm, Len(nm) - 1, Len(nm)) = <<".", ext>>
      keep == SelectSeq(names, Match)
  IN  [i \in 1..Len(keep) |-> Join(d, keep[i])]

\* glob(path/*.wav) + glob(path/*.WAV)
GlobWavs(d) == Glob(d, "wav") \o Glob(d, "WAV")

RECURSIVE RecursiveGlob(_, _)
\* maracas.utils.recursive_glob: the matches of the whole subtree
RecursiveGlob(d, ext) ==
  LET names == ListDir(d)
      subs == SelectSeq(names, LAMBDA nm : IsDir(Join(d, nm)))
      Below[i \in 0..Len(subs)] ==
        IF i = 0 THEN << >> ELSE Below[i - 1] \o RecursiveGlob(Join(d, subs[i]), ext)
  IN  Glob(d, ext) \o Below[Len(subs)]

(***************************************************************************)
(* Python dict as a function; d[k] = v                                     *)
(***************************************************************************)
EmptyDict == [k \in {} |-> << >>]

DictSet(d, k, v) == [x \in (DOMAIN d) \cup {k} |-> IF x = k THEN v ELSE d[x]]

Min2(a, b) == IF a < b THEN a ELSE b

\* for n, f in zip(names, files): d[n] = f
ZipInto(d, names, files) ==
  LET n == Min2(Len(names), Len(files))
      Step[i \in 0..n] == IF i = 0 THEN d ELSE DictSet(Step[i - 1], names[i], files[i])
  IN  Step[n]

(***************************************************************************)
(* Dataset.add_speech_files                                                *)
(***************************************************************************)
AddSpeechFiles(sp, path, recursive) ==
  IF IsFile(path) THEN [ok |-> TRUE, speech |-> Append(sp, path)]
  ELSE IF IsDir(path)
       THEN [ok |-> TRUE,
             speech |-> sp \o (IF recursive
                               THEN RecursiveGlob(path, "wav") \o RecursiveGlob(path, "WAV")
                               ELSE GlobWavs(path))]
       ELSE [ok |-> FALSE, speech |-> sp]

(***************************************************************************)
(* Dataset._add_distortion_files                                           *)
(* A name argument is [t, v]: t is "none", "str", "list" or "tuple" and v  *)
(* the sequence of names it holds (one name for "str").                    *)
(***************************************************************************)
NoName == [t |-> "none", v |-> << >>]

\* type(name) != list or type(name) != tuple
NameTypeRejected(name) == name.t # "list" \/ name.t # "tuple"

AddDistortionFiles(path, d, name) ==
  IF IsFile(path)
  THEN [ok |-> TRUE,
        d |-> DictSet(d, IF name.t = "none" THEN SplitextRoot(Basename(path))
                         ELSE name.v[1], path)]
  ELSE IF IsDir(path)
       THEN LET files == GlobWavs(path)
            IN  IF name.t # "none"
                THEN IF NameTypeRejected(name) THEN [ok |-> FALSE, d |-> d]
                     ELSE IF Len(name.v) # Len(files) THEN [ok |-> FALSE, d |-> d]
                     ELSE [ok |-> TRUE, d |-> ZipInto(d, name.v, files)]
                ELSE [ok |-> TRUE,
                      d |-> ZipInto(d, [i \in 1..Len(files) |->
                                          SplitextRoot(Basename(files[i]))], files)]
       ELSE [ok |-> FALSE, d |-> d]

(***************************************************************************)
(* Registry operations as actions.  lastOp records the last call made on   *)
(* the registry and whether it returned (ok) or raised.                    *)
(***************************************************************************)
SpeechPathArgs == { <<"s", "/", "a", ".", "wav">>, <<"s", "/", "u", "/", "a", ".", "wav">>,
                    <<"s">>, <<"s", "/", "u">>, <<"x">> }

DistPathArgs == { <<"n", "/", "c", ".", "wav">>, <<"n", "/", "b", "_", "c", ".", "wav">>,
                  <<"n">>, <<"r">>, <<"x">> }

NameArgs == { NoName,
              [t |-> "str", v |-> << <<"c">> >>],
              [t |-> "list", v |-> << <<"w">> >>],
              [t |-> "list", v |-> << <<"w">>, <<"v">> >>],
              [t |-> "tuple", v |-> << <<"w">>, <<"v">> >>] }

NoOp == [op |-> "none", path |-> << >>, name |-> NoName, recursive |-> FALSE,
         ok |-> TRUE, overwrote |-> FALSE]

AddSpeech(path, recursive) ==
  LET r == AddSpeechFiles(speech, path, recursive)
  IN  /\ Len(r.speech) <= MaxSpeech
      /\ speech' = r.speech
      /\ lastOp' = [op |-> "add_speech_files", path |-> path, name |-> NoName,
                    recursive |-> recursive, ok |-> r.ok, overwrote |-> FALSE]
      /\ UNCHANGED <<noise, reverb>>
      /\ UNCHANGED genvars

\* a single file is registered under one name: None or a string
NameFits(path, name) == IsFile(path) => name.t \in {"none", "str"}

AddNoise(path, name) ==
  LET r == AddDistortionFiles(path, noise, name)
  IN  /\ NameFits(path, name)
      /\ noise' = r.d
      /\ lastOp' = [op |-> "add_noise_files", path |-> path, name |-> name,
                    recursive |-> FALSE, ok |-> r.ok,
                    overwrote |-> \E k \in DOMAIN noise : r.d[k] # noise[k]]
      /\ UNCHANGED <<speech, reverb>>
      /\ UNCHANGED genvars

AddReverb(path, name) ==
  LET r == AddDistortionFiles(path, reverb, name)
  IN  /\ NameFits(path, name)
      /\ reverb' = r.d
      /\ lastOp' = [op |-> "add_reverb_files", path |-> path, name |-> name,
                    recursive |-> FALSE, ok |-> r.ok,
                    overwrote |-> \E k \in DOMAIN reverb : r.d[k] # reverb[k]]
      /\ UNCHANGED <<speech, noise>>
      /\ UNCHANGED genvars

(***************************************************************************)
(* Generation: text of the condition names and output paths                *)
(***************************************************************************)
DigitChars == <<"0", "1", "2", "3", "4", "5", "6", "7", "8", "9">>

RECURSIVE NatToStr(_)
NatToStr(n) ==
  IF n < 10 THEN <<DigitChars[n + 1]>>
  ELSE NatToStr(n \div 10) \o <<DigitChars[(n % 10) + 1]>>

\* '{}'.format(n) for an integer n
IntToStr(n) == IF n < 0 THEN <<"-">> \o NatToStr(-n) ELSE NatToStr(n)

\* An optional value is << >> (None) or <<x>>.
None == << >>
Some(x) == <<x>>

\* '{}_{}'.format(reverb, noise) if reverb is not None else noise
ConditionName(reverbOpt, noiseName) ==
  IF reverbOpt # None THEN reverbOpt[1] \o <<"_">> \o noiseName ELSE noiseName

\* '{}_{}dB'.format(condition_name, snr)
FolderName(cond, snr) == cond \o <<"_">> \o IntToStr(snr) \o <<"dB">>

\* os.path.join(output_dir, '{}_{}dB'.format(condition_name, snr))
Subfolder(outdir, cond, snr) == Join(outdir, FolderName(cond, snr))

\* the path FileGenerator.__call__ writes for speech file f
OutPath(outdir, cond, snr, f) == Join(Subfolder(outdir, cond, snr), Basename(f))

\* the folder loop without its try/except: an existing folder raises
MkdirLoopNoExcept(ds, outdir, cond, snrs) ==
  LET Step[i \in 0..Len(snrs)] ==
        IF i = 0 THEN [dirs |-> ds, raised |-> FALSE]
        ELSE LET before == Step[i - 1]
                 d == Subfolder(outdir, cond, snrs[i])
             IN  IF before.raised THEN before
                 ELSE IF d \in before.dirs THEN [dirs |-> before.dirs, raised |-> TRUE]
                 ELSE [dirs |-> before.dirs \cup {d}, raised |-> FALSE]
  IN  [dirs |-> Step[Len(snrs)].dirs, warned |-> FALSE, raised |-> Step[Len(snrs)].raised]

\* try: for snr in snrs: os.mkdir(...)  except OSError: print(...)
\* os.mkdir raises when the path exists; the first failure leaves the loop.
MkdirLoop(ds, outdir, cond, snrs) ==
  LET Step[i \in 0..Len(snrs)] ==
        IF i = 0 THEN [dirs |-> ds, warned |-> FALSE]
        ELSE LET before == Step[i - 1]
                 d == Subfolder(outdir, cond, snrs[i])
             IN  IF before.warned THEN before
                 ELSE IF d \in before.dirs THEN [dirs |-> before.dirs, warned |-> TRUE]
                 ELSE [dirs |-> before.dirs \cup {d}, warned |-> FALSE]
  IN  [dirs |-> Step[Len(snrs)].dirs, warned |-> Step[Len(snrs)].warned, raised |-> FALSE]

\* a prologue that makes the output directory before it checks the noise name
ConditionPrologueChecksLate(nz, rv, ds, snrs, outdir, reverbOpt, noiseName) ==
  IF noiseName \notin DOMAIN nz \/ (reverbOpt # None /\ reverbOpt[1] \notin DOMAIN rv)
  THEN [raised |-> TRUE, dirs |-> ds \cup {outdir}, cond |-> << >>, warned |-> FALSE]
  ELSE LET cond == ConditionName(reverbOpt, noiseName)
           r == MkdirLoop(ds \cup {outdir}, outdir, cond, snrs)
       IN  [raised |-> r.raised, dirs |-> r.dirs, cond |-> cond, warned |-> r.warned]

\* generate_condition up to the folder creation: the noise check, the reads of
\* the registered files, the condition name, the output directory, the folders
ConditionPrologue(nz, rv, ds, snrs, outdir, reverbOpt, noiseName) ==
  IF noiseName \notin DOMAIN nz
  THEN [raised |-> TRUE, dirs |-> ds, cond |-> << >>, warned |-> FALSE]
  ELSE IF reverbOpt # None /\ reverbOpt[1] \notin DOMAIN rv
  THEN [raised |-> TRUE, dirs |-> ds, cond |-> << >>, warned |-> FALSE]
  ELSE LET cond == ConditionName(reverbOpt, noiseName)
           r == MkdirLoop(ds \cup {outdir}, outdir, cond, snrs)
       IN  [raised |-> r.raised, dirs |-> r.dirs, cond |-> cond, warned |-> r.warned]

\* a choice with replacement (replace=True)
RandomChoiceWithReplacement(n, m) == [1..m -> 1..n]

\* np.random.choice(speech, m, replace=False): the positions it may draw, in
\* the order drawn; the empty set when it raises (m larger than the list)
RandomChoice(n, m) ==
  IF m > n THEN {}
  ELSE {sel \in [1..m -> 1..n] : \A i, j \in 1..m : i # j => sel[i] # sel[j]}

\* wavwrite(path, y, fs): creates or replaces the file; fails when the
\* directory of the path does not exist
WavWrite(ds, fs, dir, path) ==
  IF dir \in ds THEN [ok |-> TRUE, files |-> fs \cup {path}]
  ELSE [ok |-> FALSE, files |-> fs]

\* FileGenerator.__call__(f) of the FileGenerator built for (cond, snr)
FileGeneratorCall(ds, fs, outdir, cond, snr, f) ==
  WavWrite(ds, fs, Subfolder(outdir, cond, snr), OutPath(outdir, cond, snr, f))

\* for f in speech_files: filegen_fn(f)  -- stops at the first call that raises
SequentialLoop(ds, fs, outdir, cond, snr, files) ==
  LET Step[i \in 0..Len(files)] ==
        IF i = 0 THEN [ok |-> TRUE, files |-> fs]
        ELSE IF ~Step[i - 1].ok THEN Step[i - 1]
        ELSE FileGeneratorCall(ds, Step[i - 1].files, outdir, cond, snr, files[i])
  IN  Step[Len(files)]

(***************************************************************************)
(* Generation: the caller's thread and the pool                            *)
(***************************************************************************)
OutDir == <<"out">>

NoCall == [kind |-> "none", snrs |-> << >>, noise |-> << >>, reverb |-> None,
           m |-> None, usePool |-> FALSE, pairs |-> << >>, pairNo |-> 0,
           cond |-> << >>, snrIdx |-> 0]

NoBatch == [m |-> None, sel |-> << >>, files |-> << >>, set |-> FALSE]

NoPrev == [same |-> FALSE, files |-> {}, result |-> "none"]

IdleWorkers == [w \in 1..NWorkers |-> << >>]

\* nothing of an earlier call is still queued or running
Quiescent == pc = "idle" /\ pending = << >> /\ worker = IdleWorkers

\* the arguments that identify a call
Args(c) == <<c.kind, c.snrs, c.noise, c.reverb, c.m, c.usePool>>

\* if type(snrs) is not list: snrs = [snrs]
\* (an SNR argument is [list, v]: a list v, or the scalar v[1])
Coerce(snrsArg) == IF snrsArg.list THEN snrsArg.v ELSE <<snrsArg.v[1]>>

StartCall(c) ==
  /\ Quiescent
  /\ ncalls < MaxCalls
  /\ ncalls' = ncalls + 1
  /\ call' = c
  /\ prev' = IF result # "none" /\ Args(c) = Args(call)
             THEN [same |-> TRUE, files |-> outFiles, result |-> result]
             ELSE NoPrev
  /\ batch' = NoBatch
  /\ invoked' = << >>
  /\ failed' = FALSE
  /\ UNCHANGED <<dirs, outFiles, pending, worker>>
  /\ UNCHANGED dsvars

\* a direct call of Dataset.generate_condition
GenerateCondition(snrsArg, noiseName, reverbOpt, m, usePool) ==
  /\ StartCall([kind |-> "condition", snrs |-> Coerce(snrsArg), noise |-> noiseName,
                reverb |-> reverbOpt, m |-> m, usePool |-> usePool,
                pairs |-> << <<reverbOpt, noiseName>> >>, pairNo |-> 1,
                cond |-> << >>, snrIdx |-> 0])
  /\ pc' = "cond"
  /\ result' = "running"

\* the orders in which a dict may hand out its keys
KeyOrders(d) ==
  {o \in [1..Cardinality(DOMAIN d) -> DOMAIN d] :
     \A i, j \in DOMAIN o : i # j => o[i] # o[j]}

\* itertools.product(rk, nk) as pairs (reverb, noise), the last varying fastest
Product(rk, nk) ==
  [i \in 1..(Len(rk) * Len(nk)) |->
     << Some(rk[((i - 1) \div Len(nk)) + 1]), nk[((i - 1) % Len(nk)) + 1] >>]

\* Dataset.generate_dataset: the pool is made, the pairs are enumerated
GenerateDataset(snrsArg, m) ==
  \E rk \in KeyOrders(reverb), nk \in KeyOrders(noise) :
    LET pairs == Product(rk, nk)
    IN  /\ StartCall([kind |-> "dataset", snrs |-> Coerce(snrsArg), noise |-> << >>,
                      reverb |-> None, m |-> m, usePool |-> TRUE,
                      pairs |-> pairs, pairNo |-> 1, cond |-> << >>, snrIdx |-> 0])
        /\ pc' = IF pairs = << >> THEN "idle" ELSE "cond"
        /\ result' = IF pairs = << >> THEN "ok" ELSE "running"

\* the caller's thread leaves the call with an exception
Raise ==
  /\ pc' = "idle"
  /\ result' = "error"

\* the batch of snrs[call.snrIdx] is complete: next SNR, next pair, or return
Advance ==
  IF call.snrIdx < Len(call.snrs)
  THEN /\ call' = [call EXCEPT !.snrIdx = @ + 1]
       /\ pc' = "select"
       /\ UNCHANGED result
  ELSE IF Len(call.pairs) > 1
  THEN /\ call' = [call EXCEPT !.pairs = Tail(@), !.pairNo = @ + 1, !.snrIdx = 0]
       /\ pc' = "cond"
       /\ UNCHANGED result
  ELSE /\ call' = [call EXCEPT !.pairs = Tail(@)]
       /\ pc' = "idle"
       /\ result' = "ok"

\* generate_condition, lines 75-98, for the pair at the head of call.pairs
BeginCondition ==
  /\ pc = "cond"
  /\ LET pair == Head(call.pairs)
         r == ConditionPrologue(noise, reverb, dirs, call.snrs, OutDir, pair[1], pair[2])
     IN  /\ invoked' = Append(invoked, pair)
         /\ dirs' = r.dirs
         /\ IF r.raised
            THEN Raise /\ UNCHANGED call
            ELSE /\ call' = [call EXCEPT !.cond = r.cond, !.snrIdx = 1]
                 /\ pc' = "select"
                 /\ UNCHANGED result
  /\ UNCHANGED <<outFiles, pending, worker, failed, batch, prev, ncalls>>
  /\ UNCHANGED dsvars

Task(f) == [cond |-> call.cond, snr |-> call.snrs[call.snrIdx], f |-> f,
            bid |-> <<ncalls, call.pairNo, call.snrIdx>>]

\* a map that does not wait for its tasks (map_async)
MapCompleteNoWait == TRUE

\* pool.map has every result: no task of the batch is queued or running
MapComplete == pending = << >> /\ worker = IdleWorkers

\* generate_condition, lines 100-114, for snrs[call.snrIdx]: the choice of the
\* speech files and their dispatch
Dispatch(sel) ==
  LET files == [i \in 1..Len(sel) |-> speech[sel[i]]]
      snr == call.snrs[call.snrIdx]
  IN  /\ batch' = [m |-> call.m, sel |-> sel, files |-> files, set |-> TRUE]
      /\ IF call.usePool
         THEN /\ pending' = pending \o [i \in 1..Len(files) |-> Task(files[i])]
              /\ failed' = FALSE
              /\ pc' = "map"
              /\ UNCHANGED <<outFiles, call, result>>
         ELSE LET r == SequentialLoop(dirs, outFiles, OutDir, call.cond, snr, files)
              IN  /\ outFiles' = r.files
                  /\ IF r.ok THEN Advance ELSE Raise /\ UNCHANGED call
                  /\ UNCHANGED <<pending, failed>>

SelectBatch ==
  /\ pc = "select"
  /\ IF call.m = None
     THEN Dispatch([i \in 1..Len(speech) |-> i])
     ELSE IF RandomChoice(Len(speech), call.m[1]) = {}
     THEN /\ Raise
          /\ UNCHANGED <<outFiles, call, pending, failed, batch>>
     ELSE \E sel \in RandomChoice(Len(speech), call.m[1]) : Dispatch(sel)
  /\ UNCHANGED <<dirs, worker, invoked, prev, ncalls>>
  /\ UNCHANGED dsvars

\* an idle pool worker takes the next task of the queue
WorkerStart(w) ==
  /\ pending # << >>
  /\ worker[w] = << >>
  /\ worker' = [worker EXCEPT ![w] = <<Head(pending)>>]
  /\ pending' = Tail(pending)
  /\ UNCHANGED <<dirs, outFiles, pc, call, failed, batch, invoked, result, prev, ncalls>>
  /\ UNCHANGED dsvars

\* a pool worker completes FileGenerator.__call__ for its task
WorkerFinish(w) ==
  /\ worker[w] # << >>
  /\ LET t == worker[w][1]
         r == FileGeneratorCall(dirs, outFiles, OutDir, t.cond, t.snr, t.f)
     IN  /\ outFiles' = r.files
         /\ failed' = IF pc = "map" THEN failed \/ ~r.ok ELSE failed
  /\ worker' = [worker EXCEPT ![w] = << >>]
  /\ UNCHANGED <<dirs, pc, call, pending, batch, invoked, result, prev, ncalls>>
  /\ UNCHANGED dsvars

\* pool.map returns: every task of the batch is done and none raised
MapReturn ==
  /\ pc = "map"
  /\ MapComplete
  /\ ~failed
  /\ Advance
  /\ UNCHANGED <<dirs, outFiles, pending, worker, failed, batch, invoked, prev, ncalls>>
  /\ UNCHANGED dsvars

\* pool.map re-raises a task's exception: at once (the result is ready on the
\* first failure) or when the batch is done, depending on the interpreter
MapRaise ==
  /\ pc = "map"
  /\ failed
  /\ Raise
  /\ UNCHANGED <<dirs, outFiles, call, pending, worker, failed, batch, invoked, prev, ncalls>>
  /\ UNCHANGED dsvars

\* the pool of a call that raised is collected: its queue is dropped and its
\* workers are stopped
PoolTerminate ==
  /\ pc = "idle"
  /\ ~Quiescent
  /\ pending' = << >>
  /\ worker' = IdleWorkers
  /\ UNCHANGED <<dirs, outFiles, pc, call, failed, batch, invoked, result, prev, ncalls>>
  /\ UNCHANGED dsvars

GenIdle ==
  /\ dirs = {}
  /\ outFiles = {}
  /\ pc = "idle"
  /\ call = NoCall
  /\ pending = << >>
  /\ worker = IdleWorkers
  /\ failed = FALSE
  /\ batch = NoBatch
  /\ invoked = << >>
  /\ result = "none"
  /\ prev = NoPrev
  /\ ncalls = 0

\* Dataset.__init__
InitReg ==
  /\ speech = << >>
  /\ noise = EmptyDict
  /\ reverb = EmptyDict
  /\ lastOp = NoOp
  /\ GenIdle

NextReg ==
  \/ \E path \in SpeechPathArgs, recursive \in BOOLEAN : AddSpeech(path, recursive)
  \/ \E path \in DistPathArgs, name \in NameArgs : AddNoise(path, name)
  \/ \E path \in DistPathArgs, name \in NameArgs : AddReverb(path, name)

SpecReg == InitReg /\ [][NextReg]_vars

(***************************************************************************)
(* Generation runs on a dataset that the registry operations built.        *)
(***************************************************************************)
SpeechOf(ops) ==
  LET Step[i \in 0..Len(ops)] ==
        IF i = 0 THEN << >>
        ELSE AddSpeechFiles(Step[i - 1], ops[i][1], ops[i][2]).speech
  IN  Step[Len(ops)]

DictOf(ops) ==
  LET Step[i \in 0..Len(ops)] ==
        IF i = 0 THEN EmptyDict
        ELSE AddDistortionFiles(ops[i][1], Step[i - 1], ops[i][2]).d
  IN  Step[Len(ops)]

Scripts ==
  { \* one speech file, one noise under an explicit name, no reverb
    [speech |-> << <<<<"s", "/", "a", ".", "wav">>, FALSE>> >>,
     noise  |-> << <<<<"n", "/", "c", ".", "wav">>, [t |-> "str", v |-> << <<"w">> >>]>> >>,
     reverb |-> << >>],
    \* a folder of speech, the folders of noises and of reverbs
    [speech |-> << <<<<"s", "/", "u">>, FALSE>> >>,
     noise  |-> << <<<<"n">>, NoName>> >>,
     reverb |-> << <<<<"r">>, NoName>> >>],
    \* the same speech file added twice, two noises, one reverb
    [speech |-> << <<<<"s", "/", "a", ".", "wav">>, FALSE>>,
                   <<<<"s", "/", "a", ".", "wav">>, FALSE>> >>,
     noise  |-> << <<<<"n">>, NoName>> >>,
     reverb |-> << <<<<"r", "/", "a", ".", "wav">>, NoName>> >>],
    \* a folder of speech with two extensions
    [speech |-> << <<<<"s">>, FALSE>> >>,
     noise  |-> << <<<<"n", "/", "c", ".", "wav">>, NoName>> >>,
     reverb |-> << >>],
    \* speech of two folders: two files of the same base name
    [speech |-> << <<<<"s", "/", "u">>, FALSE>>, <<<<"s", "/", "a", ".", "wav">>, FALSE>> >>,
     noise  |-> << <<<<"n", "/", "c", ".", "wav">>, NoName>> >>,
     reverb |-> << >>],
    \* reverbs but no noise
    [speech |-> << <<<<"s", "/", "a", ".", "wav">>, FALSE>> >>,
     noise  |-> << >>,
     reverb |-> << <<<<"r", "/", "a", ".", "wav">>, NoName>> >>] }

SnrArgs == { [list |-> FALSE, v |-> <<0>>],
             [list |-> TRUE, v |-> <<0, 10>>],
             [list |-> TRUE, v |-> <<10, 0>>] }

MArgs == { None, Some(1), Some(2), Some(3) }

Unregistered == <<"z">>

InitGen ==
  /\ \E sc \in Scripts :
       /\ speech = SpeechOf(sc.speech)
       /\ noise = DictOf(sc.noise)
       /\ reverb = DictOf(sc.reverb)
  /\ lastOp = NoOp
  /\ GenIdle

NextGen ==
  \/ \E snrsArg \in SnrArgs, m \in MArgs, usePool \in BOOLEAN,
        noiseName \in (DOMAIN noise) \cup {Unregistered},
        reverbOpt \in {None} \cup {Some(k) : k \in (DOMAIN reverb) \cup {Unregistered}} :
       GenerateCondition(snrsArg, noiseName, reverbOpt, m, usePool)
  \/ \E snrsArg \in SnrArgs, m \in MArgs : GenerateDataset(snrsArg, m)
  \/ BeginCondition
  \/ SelectBatch
  \/ \E w \in 1..NWorkers : WorkerStart(w)
  \/ \E w \in 1..NWorkers : WorkerFinish(w)
  \/ MapReturn
  \/ MapRaise
  \/ PoolTerminate

Spec == InitGen /\ [][NextGen]_vars

(***************************************************************************)
(* Properties of the registry (under SpecReg)                              *)
(***************************************************************************)
ExplicitNameArgs == {n \in NameArgs : n.t \in {"list", "tuple"}}

DistOps == {"add_noise_files", "add_reverb_files"}

\* C1: add_noise_files / add_reverb_files on a directory of K discovered wav
\* files with an explicit list or tuple of names: with K names the call
\* succeeds and the targeted registry gains exactly name[i] -> file[i]; with
\* another number of names it fails and leaves the registry unchanged.
C1_ExplicitNamesPairwise ==
  [][\A path \in InputDirs, name \in ExplicitNameArgs, op \in DistOps :
       (lastOp'.op = op /\ lastOp'.path = path /\ lastOp'.name = name) =>
         LET before == IF op = "add_noise_files" THEN noise ELSE reverb
             after == IF op = "add_noise_files" THEN noise' ELSE reverb'
             files == GlobWavs(path)
             K == Len(files)
         IN  IF Len(name.v) = K
             THEN /\ lastOp'.ok
                  /\ DOMAIN after = (DOMAIN before) \cup {name.v[i] : i \in 1..K}
                  /\ \A i \in 1..K : after[name.v[i]] = files[i]
                  /\ \A k \in (DOMAIN before) \ {name.v[i] : i \in 1..K} :
                       after[k] = before[k]
             ELSE ~lastOp'.ok /\ after = before]_vars

Stems == { <<"c">>, <<"b", "_", "c">>, <<"a">>, <<"a", "_", "b">> }

Exts == {"wav", "WAV", "txt"}

\* C8: registering a single existing file with add_noise_files (or
\* add_reverb_files) and no explicit name sets, in the targeted registry only,
\* the key "base name without extension" to the path, replacing any entry of
\* that key; the other entries, the other registry and the speech list are
\* unchanged.
C8_SingleFileDefaultKey ==
  [][\A dir \in InputDirs, stem \in Stems, ext \in Exts, op \in DistOps :
       LET path == dir \o <<"/">> \o stem \o <<".", ext>>
       IN  (IsFile(path) /\ lastOp'.op = op /\ lastOp'.path = path
              /\ lastOp'.name = NoName) =>
             LET before == IF op = "add_noise_files" THEN noise ELSE reverb
                 after == IF op = "add_noise_files" THEN noise' ELSE reverb'
             IN  /\ lastOp'.ok
                 /\ DOMAIN after = (DOMAIN before) \cup {stem}
                 /\ after[stem] = path
                 /\ \A k \in (DOMAIN before) \ {stem} : after[k] = before[k]
                 /\ op = "add_noise_files" => reverb' = reverb
                 /\ op = "add_reverb_files" => noise' = noise
                 /\ speech' = speech]_vars

\* a single noise file was registered under its default key and replaced the
\* entry another file held under that key, with a reverb and a speech file
\* registered beside it
C8_Witness ==
  /\ lastOp.op = "add_noise_files"
  /\ lastOp.name = NoName
  /\ lastOp.path = <<"n", "/", "c", ".", "wav">>
  /\ lastOp.ok
  /\ lastOp.overwrote
  /\ <<"c">> \in DOMAIN noise
  /\ noise[<<"c">>] = <<"n", "/", "c", ".", "wav">>
  /\ DOMAIN reverb # {}
  /\ speech # << >>

(***************************************************************************)
(* Properties of the generation (under Spec)                               *)
(***************************************************************************)
Range(f) == {f[i] : i \in DOMAIN f}

\* the reverb choices of the cross product as the claim has them
ReverbDimension ==
  IF DOMAIN reverb = {} THEN {None} ELSE {Some(k) : k \in DOMAIN reverb}

\* C2: generate_dataset invokes generate_condition exactly once for every pair
\* of (registered reverbs) x (registered noises); an empty reverb registry
\* contributes the single choice "no reverb"; an empty noise registry gives
\* no condition.
C2_EveryPairOnce ==
  (pc = "idle" /\ call.kind = "dataset" /\ result = "ok") =>
    /\ \A r \in ReverbDimension, n \in DOMAIN noise :
         Cardinality({i \in DOMAIN invoked : invoked[i] = <<r, n>>}) = 1
    /\ \A i \in DOMAIN invoked :
         invoked[i][1] \in ReverbDimension /\ invoked[i][2] \in DOMAIN noise

\* C3: in generate_condition with a registered noise, after the folder
\* creation step every subfolder {conditionName}_{snr}dB of the SNR list
\* exists, whatever the output directory held before.
C3_AllFoldersExist ==
  pc \in {"select", "map"} =>
    \A i \in DOMAIN call.snrs : Subfolder(OutDir, call.cond, call.snrs[i]) \in dirs

\* C4: generate_condition with a noise name that is not registered fails
\* before any change of the file system: no directory is made, no file is
\* written and no task is dispatched.
C4_UnknownNoiseNoWrites ==
  [][(pc = "cond" /\ Head(call.pairs)[2] \notin DOMAIN noise) =>
       /\ pc' = "idle"
       /\ result' = "error"
       /\ dirs' = dirs
       /\ outFiles' = outFiles
       /\ pending' = pending
       /\ worker' = worker]_vars

\* generate_condition was called with an unregistered noise, a reverb and a
\* pool into an output directory that does not exist yet, and has failed
C4_Witness ==
  /\ pc = "idle"
  /\ result = "error"
  /\ call.kind = "condition"
  /\ call.noise \notin DOMAIN noise
  /\ call.reverb # None
  /\ call.usePool
  /\ call.m # None
  /\ Len(invoked) = 1
  /\ dirs = {}
  /\ outFiles = {}

\* C5 (as amended): with files_per_condition = M <= S every batch holds
\* exactly M entries of the speech list, taken at pairwise distinct positions;
\* with M > S the call fails and no batch is selected.
C5_SampleDistinctPositions ==
  /\ (batch.set /\ batch.m # None) =>
       /\ batch.m = call.m
       /\ batch.m[1] <= Len(speech)
       /\ Len(batch.files) = batch.m[1]
       /\ Cardinality(Range(batch.sel)) = batch.m[1]
       /\ \A i \in DOMAIN batch.sel :
            batch.sel[i] \in 1..Len(speech) /\ batch.files[i] = speech[batch.sel[i]]
  /\ (call.m # None /\ pc = "map") => batch.set /\ batch.m = call.m
  /\ (call.kind = "condition" /\ call.m # None /\ call.m[1] > Len(speech)) =>
       /\ ~batch.set
       /\ pc = "idle" => result = "error"

\* two entries were sampled from a speech list that holds one path twice
C5_Witness ==
  /\ batch.set
  /\ batch.m = Some(2)
  /\ Len(batch.files) = 2
  /\ batch.sel[1] # batch.sel[2]
  /\ batch.files[1] = batch.files[2]

\* C5 (as stated): with M <= S exactly M distinct speech files are passed on,
\* no file path twice, for every speech list add_speech_files can build; with
\* M > S the call fails.
C5_SampleDistinctPaths ==
  /\ (batch.set /\ batch.m # None) =>
       /\ Len(batch.files) = batch.m[1]
       /\ Cardinality(Range(batch.files)) = batch.m[1]
  /\ (call.kind = "condition" /\ call.m # None /\ call.m[1] > Len(speech)
        /\ pc = "idle") => result = "error"

\* the subfolders the last call generated into
CallFolders ==
  { Subfolder(OutDir, ConditionName(invoked[i][1], invoked[i][2]), call.snrs[j]) :
      i \in DOMAIN invoked, j \in DOMAIN call.snrs }

\* the output files directly in directory d
FilesIn(d) ==
  {p \in outFiles : Len(p) > Len(d) + 1 /\ SubSeq(p, 1, Len(d) + 1) = d \o <<"/">>}

SecondRunDone == pc = "idle" /\ prev.same /\ prev.result = "ok"

DatasetConditions ==
  {<<Some(r), n, snr>> : r \in DOMAIN reverb, n \in DOMAIN noise, snr \in Range(call.snrs)}

ConditionFolder(c) == Subfolder(OutDir, ConditionName(c[1], c[2]), c[3])

\* C7: within one generate_dataset call distinct conditions (reverb, noise,
\* snr) have distinct output subfolders.
C7_FoldersInjective ==
  call.kind = "dataset" =>
    \A c1, c2 \in DatasetConditions :
      c1 # c2 => ConditionFolder(c1) # ConditionFolder(c2)

Running == {w \in 1..NWorkers : worker[w] # << >>}

TaskPath(t) == OutPath(OutDir, t.cond, t.snr, t.f)

\* C9: the per-file tasks of one batch write pairwise distinct paths: no two
\* workers running at the same time write the same file.
C9_ConcurrentWritesDistinct ==
  \A w1, w2 \in Running :
    w1 # w2 => TaskPath(worker[w1][1]) # TaskPath(worker[w2][1])

\* the tasks queued or running
InFlight == Range(pending) \cup {worker[w][1] : w \in Running}

\* C10: batches are processed one after another: every task queued or running
\* belongs to one batch, and while the caller generates, to the batch of the
\* (pair, SNR) it is at.
C10_OneBatchAtATime ==
  /\ \A t1, t2 \in InFlight : t1.bid = t2.bid
  /\ pc # "idle" => \A t \in InFlight : t.bid = <<ncalls, call.pairNo, call.snrIdx>>
  /\ pc \in {"cond", "select"} => InFlight = {}

\* two workers run tasks of the second SNR of a later pair of generate_dataset
C10_Witness ==
  /\ call.kind = "dataset"
  /\ call.pairNo >= 2
  /\ call.snrIdx = 2
  /\ Cardinality(Running) = 2

====
